---- MODULE Spec2Model ----
(***************************************************************************)
(* Model of recalbox/pm_daemon.py: the event-driven LED daemon that reads  *)
(* JSON lines from a FIFO and writes colour frames to a serial sink.       *)
(*                                                                         *)
(* Conventions.  A Python str is a sequence of one-character strings.  A   *)
(* JSON value is a tagged record (JInt, JStr, JList, JObj, JNull); a JSON  *)
(* object is a function whose domain is a set of strs.  A call that can    *)
(* raise returns Raise, and a call that returns None returns None.  The    *)
(* monotonic clock is counted in quanta of 1/FPS second; math.sin is       *)
(* tabulated over one period of SinMilli.                                  *)
(***************************************************************************)
EXTENDS Integers, Sequences, FiniteSets, TLC

VARIABLES
    cfg,           \* _cfg, the loaded systems.json
    file,          \* content of SYSTEMS_JSON on disk
    running,       \* the global flag cleared by _stop
    pc,            \* position of main
    current_idle,  \* the idle generator object
    since,         \* time.monotonic() - last_idle, saturated at IDLE_TICKS
    now,           \* time.monotonic(), modulo the period of SinMilli
    fifo,          \* lines in the kernel FIFO, not yet read
    rbuf,          \* lines held in the buffered reader rdr
    evt,           \* locals of the handler in progress
    step,          \* number of frames the running handler has sent
    wrote,         \* frames written to ser for the line being handled
    last,          \* the most recent bytes written to ser
    serOpen,       \* the serial sink is open
    arg,           \* input of a resolver or codec call
    res            \* what that call returned

vars == <<cfg, file, running, pc, current_idle, since, now, fifo, rbuf,
          evt, step, wrote, last, serOpen, arg, res>>

daemonVars == <<cfg, file, running, pc, current_idle, since, now, fifo, rbuf,
                evt, step, wrote, serOpen>>

-----------------------------------------------------------------------------
(* CONFIG block of the source *)

NUM_LEDS == 7
ORDER == [i \in 1..NUM_LEDS |-> i - 1]
BRIGHT_LIMIT == 170
FPS == 60
\* b"multiverse:data"
HEADER == <<109, 117, 108, 116, 105, 118, 101, 114, 115, 101, 58,
            100, 97, 116, 97>>

-----------------------------------------------------------------------------
(* Results of calls *)

Raise == [k |-> "raise"]
None == [k |-> "none"]
Tup(c) == [k |-> "tuple", c |-> c]
Cols(f) == [k |-> "cols", f |-> f]
Str(s) == [k |-> "str", s |-> s]

-----------------------------------------------------------------------------
(* Frame codec *)

_clamp_nohi(x, lo, hi) == IF x < lo THEN lo ELSE x % 256
_clamp(x, lo, hi) == IF x < lo THEN lo ELSE IF x > hi THEN hi ELSE x

Min(a, b) == IF a < b THEN a ELSE b
Max(a, b) == IF a > b THEN a ELSE b

\* the payload of pack_colors: four clamped bytes per colour, in order
pack_payload(cols) ==
    [j \in 1..(4 * Len(cols)) |->
        _clamp(cols[((j - 1) \div 4) + 1][((j - 1) % 4) + 1], 0, 255)]

pack_colors(cols) == HEADER \o pack_payload(cols)

\* the bytes send_colors hands to ser.write
send_colors(cols) ==
    LET mapped == [i \in 1..NUM_LEDS |->
                     IF ORDER[i] < Len(cols) THEN cols[ORDER[i] + 1]
                     ELSE <<0, 0, 0, 0>>]
    IN  pack_colors(mapped)

\* all_off that leaves brightness 1 on every LED
all_off_dim == [i \in 1..NUM_LEDS |-> <<0, 0, 0, 1>>]

all_off == [i \in 1..NUM_LEDS |-> <<0, 0, 0, 0>>]

\* solid without the BRIGHT_LIMIT cap
solid_nocap(b, g, r, br) == [i \in 1..NUM_LEDS |-> <<b, g, r, _clamp(br, 0, 255)>>]

solid(b, g, r, br) ==
    [i \in 1..NUM_LEDS |-> <<b, g, r, _clamp(Min(br, BRIGHT_LIMIT), 0, 255)>>]

-----------------------------------------------------------------------------
(* Python str and int() *)

U2L == [A |-> "a", B |-> "b", C |-> "c", D |-> "d", E |-> "e", F |-> "f",
        G |-> "g", H |-> "h", I |-> "i", J |-> "j", K |-> "k", L |-> "l",
        M |-> "m", N |-> "n", O |-> "o", P |-> "p", Q |-> "q", R |-> "r",
        S |-> "s", T |-> "t", U |-> "u", V |-> "v", W |-> "w", X |-> "x",
        Y |-> "y", Z |-> "z"]

\* str.lower()
lower(s) == [i \in 1..Len(s) |-> IF s[i] \in DOMAIN U2L THEN U2L[s[i]] ELSE s[i]]

IsSpace(c) == c = " "

RECURSIVE lstrip(_)
lstrip(s) == IF s # <<>> /\ IsSpace(Head(s)) THEN lstrip(Tail(s)) ELSE s

RECURSIVE rstrip(_)
rstrip(s) ==
    IF s # <<>> /\ IsSpace(s[Len(s)]) THEN rstrip(SubSeq(s, 1, Len(s) - 1)) ELSE s

\* str.strip()
strip(s) == rstrip(lstrip(s))

\* index of the first c in s, 0 when there is none
find(s, c) ==
    IF \E i \in 1..Len(s) : s[i] = c
    THEN CHOOSE i \in 1..Len(s) : s[i] = c /\ \A j \in 1..(i - 1) : s[j] # c
    ELSE 0

\* index of the last c in s, 0 when there is none
rfind(s, c) ==
    IF \E i \in 1..Len(s) : s[i] = c
    THEN CHOOSE i \in 1..Len(s) : s[i] = c /\ \A j \in (i + 1)..Len(s) : s[j] # c
    ELSE 0

\* sub in s, for strs
contains(s, sub) ==
    \E i \in 1..(Len(s) + 1) :
        i + Len(sub) - 1 <= Len(s) /\ SubSeq(s, i, i + Len(sub) - 1) = sub

DigitVal == [c \in {"0", "1", "2", "3", "4", "5", "6", "7", "8", "9",
                    "a", "b", "c", "d", "e", "f",
                    "A", "B", "C", "D", "E", "F"} |->
    CASE c = "0" -> 0 [] c = "1" -> 1 [] c = "2" -> 2 [] c = "3" -> 3
      [] c = "4" -> 4 [] c = "5" -> 5 [] c = "6" -> 6 [] c = "7" -> 7
      [] c = "8" -> 8 [] c = "9" -> 9
      [] c \in {"a", "A"} -> 10 [] c \in {"b", "B"} -> 11
      [] c \in {"c", "C"} -> 12 [] c \in {"d", "D"} -> 13
      [] c \in {"e", "E"} -> 14 [] c \in {"f", "F"} -> 15]

IsDigit(c, base) == c \in DOMAIN DigitVal /\ DigitVal[c] < base

\* the digit part of an int literal: digits, single underscores between them
ValidDigits(d, base, lead) ==
    /\ d # <<>>
    /\ IsDigit(d[Len(d)], base)
    /\ lead \/ IsDigit(d[1], base)
    /\ \A i \in 1..Len(d) : IsDigit(d[i], base) \/ d[i] = "_"
    /\ \A i \in 1..(Len(d) - 1) : ~(d[i] = "_" /\ d[i + 1] = "_")

RECURSIVE DigitsValue(_, _, _)
DigitsValue(d, base, acc) ==
    IF d = <<>> THEN acc
    ELSE IF Head(d) = "_" THEN DigitsValue(Tail(d), base, acc)
    ELSE DigitsValue(Tail(d), base, acc * base + DigitVal[Head(d)])

IntV(n) == [k |-> "int", n |-> n]

\* the value of a digit part: IntV(n), or Raise for ValueError
int_digits(d, base, lead, neg) ==
    IF ValidDigits(d, base, lead)
    THEN IntV(IF neg THEN 0 - DigitsValue(d, base, 0)
              ELSE DigitsValue(d, base, 0))
    ELSE Raise

\* u is the literal after its sign: a 0x prefix is allowed in base 16
int_prefixed(u, base, neg) ==
    IF base = 16 /\ Len(u) >= 2 /\ u[1] = "0" /\ u[2] \in {"x", "X"}
    THEN int_digits(SubSeq(u, 3, Len(u)), base, TRUE, neg)
    ELSE int_digits(u, base, FALSE, neg)

\* t is the stripped literal
int_signed(t, base) ==
    IF t # <<>> /\ Head(t) \in {"+", "-"}
    THEN int_prefixed(Tail(t), base, Head(t) = "-")
    ELSE int_prefixed(t, base, FALSE)

\* int(s, base) for a str s: IntV(n), or Raise for ValueError
int_str(s, base) == int_signed(strip(s), base)

-----------------------------------------------------------------------------
(* JSON values and the Python operations the source applies to them *)

JNull == [t |-> "null"]
JInt(n) == [t |-> "int", n |-> n]
JStr(s) == [t |-> "str", s |-> s]
JList(l) == [t |-> "list", l |-> l]
JObj(o) == [t |-> "obj", o |-> o]
EmptyObj == JObj([x \in {} |-> JNull])

\* bool(v)
Truthy(v) ==
    CASE v.t = "null" -> FALSE
      [] v.t = "int" -> v.n # 0
      [] v.t = "str" -> v.s # <<>>
      [] v.t = "list" -> v.l # <<>>
      [] v.t = "obj" -> DOMAIN v.o # {}

\* d.get(key, default) on a dict d
dict_get(d, key, default) == IF key \in DOMAIN d.o THEN d.o[key] ELSE default

\* key in v raises TypeError
in_raises(key, v) == v.t \notin {"obj", "list", "str"}

\* key in v, where it does not raise
py_in(key, v) ==
    CASE v.t = "obj" -> key \in DOMAIN v.o
      [] v.t = "list" -> \E i \in 1..Len(v.l) : v.l[i] = JStr(key)
      [] v.t = "str" -> contains(v.s, key)
      [] OTHER -> FALSE

\* int(v)
py_int(v) ==
    CASE v.t = "int" -> IntV(v.n)
      [] v.t = "str" -> int_str(v.s, 10)
      [] OTHER -> Raise

k_r == <<"r">>
k_g == <<"g">>
k_b == <<"b">>
k_br == <<"b", "r">>
k_accent == <<"a", "c", "c", "e", "n", "t">>
k_start_layout == <<"s", "t", "a", "r", "t", "_", "l", "a", "y", "o", "u", "t">>
k_rom_overrides == <<"r", "o", "m", "_", "o", "v", "e", "r", "r", "i", "d", "e", "s">>
k_defaults == <<"d", "e", "f", "a", "u", "l", "t", "s">>
k_menu_color == <<"m", "e", "n", "u", "_", "c", "o", "l", "o", "r">>
k_attract == <<"a", "t", "t", "r", "a", "c", "t">>
k_event == <<"e", "v", "e", "n", "t">>
k_system == <<"s", "y", "s", "t", "e", "m">>
k_rom == <<"r", "o", "m">>
k_rompath == <<"r", "o", "m", "p", "a", "t", "h">>

-----------------------------------------------------------------------------
(* Layouts and colours from the configuration *)

\* len(v) raises TypeError
len_raises(v) == v.t \notin {"list", "str", "obj"}

\* len(v), where it does not raise
py_len(v) ==
    CASE v.t = "list" -> Len(v.l)
      [] v.t = "str" -> Len(v.s)
      [] v.t = "obj" -> Cardinality(DOMAIN v.o)
      [] OTHER -> 0

\* the (b, g, r, br) tuple of four int() results, br capped
mk_color(r, g, b, br) ==
    IF r = Raise \/ g = Raise \/ b = Raise \/ br = Raise THEN Raise
    ELSE Tup(<<b.n, g.n, r.n, _clamp(Min(br.n, BRIGHT_LIMIT), 0, 255)>>)

\* mk_color without the BRIGHT_LIMIT cap
mk_color_nocap(r, g, b, br) ==
    IF r = Raise \/ g = Raise \/ b = Raise \/ br = Raise THEN Raise
    ELSE Tup(<<b.n, g.n, r.n, _clamp(br.n, 0, 255)>>)

\* color_from_dict without the BRIGHT_LIMIT cap
color_from_dict_nocap(c, brdef) ==
    mk_color_nocap(py_int(dict_get(c, k_r, JInt(0))),
                   py_int(dict_get(c, k_g, JInt(0))),
                   py_int(dict_get(c, k_b, JInt(0))),
                   py_int(dict_get(c, k_br, JInt(brdef))))

\* the colour an {r,g,b,br} object declares; brdef is the default of "br"
color_from_dict(c, brdef) ==
    mk_color(py_int(dict_get(c, k_r, JInt(0))),
             py_int(dict_get(c, k_g, JInt(0))),
             py_int(dict_get(c, k_b, JInt(0))),
             py_int(dict_get(c, k_br, JInt(brdef))))

\* try: br = int(brs) / except: br = 64
br_or_64(bri) == IF bri = Raise THEN IntV(64) ELSE bri

\* lines 123-127: s is the part before the colon, bri the brightness
color_hex(s, bri) ==
    IF s # <<>> /\ Head(s) = "#" /\ Len(s) = 7
    THEN mk_color(int_str(SubSeq(s, 2, 3), 16), int_str(SubSeq(s, 4, 5), 16),
                  int_str(SubSeq(s, 6, 7), 16), bri)
    ELSE Tup(<<0, 0, 0, 0>>)

\* lines 119-122: s0 is the stripped item, p the place of its first colon
color_split(s0, p) ==
    IF p > 0
    THEN color_hex(SubSeq(s0, 1, p - 1),
                   br_or_64(int_str(SubSeq(s0, p + 1, Len(s0)), 10)))
    ELSE color_hex(s0, IntV(64))

\* the colour a "#RRGGBB[:br]" str declares
color_from_str(item) == color_split(strip(item), find(strip(item), ":"))

\* one pass of the loop body of cols_from_layout
color_from_item(item) ==
    CASE item.t = "obj" -> color_from_dict(item, 0)
      [] item.t = "str" -> color_from_str(item.s)
      [] OTHER -> Tup(<<0, 0, 0, 0>>)

\* layout[i] raises (KeyError: a JSON object has no int key)
getitem_raises(layout, i) == layout.t = "obj"

\* layout[i], i counted from 1, where it does not raise
getitem(layout, i) ==
    IF layout.t = "list" THEN layout.l[i] ELSE JStr(<<layout.s[i]>>)

\* the colours of the first n items, padded to NUM_LEDS
cols_padded(it, n) ==
    IF \E i \in 1..n : it[i] = Raise THEN Raise
    ELSE Cols([i \in 1..NUM_LEDS |->
                 IF i <= n THEN it[i].c ELSE <<0, 0, 0, 0>>])

cols_from_layout(layout) ==
    IF len_raises(layout) THEN Raise
    ELSE cols_padded([i \in 1..Min(NUM_LEDS, py_len(layout)) |->
                        IF getitem_raises(layout, i) THEN Raise
                        ELSE color_from_item(getitem(layout, i))],
                     Min(NUM_LEDS, py_len(layout)))

\* v[key] after "key in v" held: only a dict can be subscripted by a str
subscript(v, key) == IF v.t = "obj" THEN v.o[key] ELSE Raise

\* cols_from_layout(v["start_layout"])
layout_of(l) == IF l = Raise THEN Raise ELSE cols_from_layout(l)

\* line 138: the start_layout of the system entry itself
system_layout(syscfg) ==
    IF ~Truthy(syscfg) THEN None
    ELSE IF in_raises(k_start_layout, syscfg) THEN Raise
    ELSE IF py_in(k_start_layout, syscfg)
         THEN layout_of(subscript(syscfg, k_start_layout))
    ELSE None

\* line 137: ro is rom_overrides.get(rom_key); own is the result of line 138
rom_layout(ro, own) ==
    IF ~Truthy(ro) THEN own
    ELSE IF in_raises(k_start_layout, ro) THEN Raise
    ELSE IF py_in(k_start_layout, ro)
         THEN layout_of(subscript(ro, k_start_layout))
    ELSE own

\* line 136: ros is syscfg["rom_overrides"]
rom_entry(ros, rom_key, own) ==
    IF ros = Raise THEN Raise
    ELSE IF ros.t # "obj" THEN Raise
    ELSE rom_layout(dict_get(ros, rom_key, JNull), own)

\* lines 135-139 with the system-level layout tried first
layout_in_sysfirst(syscfg, rom_key, own) ==
    IF own # None THEN own
    ELSE IF ~Truthy(syscfg) THEN None
    ELSE IF in_raises(k_rom_overrides, syscfg) THEN Raise
    ELSE IF py_in(k_rom_overrides, syscfg)
         THEN rom_entry(subscript(syscfg, k_rom_overrides), rom_key, None)
    ELSE None

\* lines 135-139
layout_in(syscfg, rom_key, own) ==
    IF ~Truthy(syscfg) THEN None
    ELSE IF in_raises(k_rom_overrides, syscfg) THEN Raise
    ELSE IF py_in(k_rom_overrides, syscfg)
         THEN rom_entry(subscript(syscfg, k_rom_overrides), rom_key, own)
    ELSE own

\* lookup_start_layout with the system-level layout tried first
lookup_start_layout_sysfirst(system_key, rom_key) ==
    layout_in_sysfirst(dict_get(cfg, system_key, EmptyObj), rom_key,
                       system_layout(dict_get(cfg, system_key, EmptyObj)))

lookup_start_layout(system_key, rom_key) ==
    layout_in(dict_get(cfg, system_key, EmptyObj), rom_key,
              system_layout(dict_get(cfg, system_key, EmptyObj)))

\* lines 144-147 and 151-154: c is the configured colour, dflt the result
\* when c is no object
colour_or(c, dflt) == IF c.t = "obj" THEN color_from_dict(c, 24) ELSE dflt

\* d.get(key) on a value that may be no dict: the value, JNull, or Raise
get_or_raise(d, key) == IF d.t # "obj" THEN Raise ELSE dict_get(d, key, JNull)

\* the colour found under key, or Raise when the lookup of key raised
colour_at(c, dflt) == IF c = Raise THEN Raise ELSE colour_or(c, dflt)

system_accent(system_key) ==
    colour_at(get_or_raise(dict_get(cfg, system_key, EmptyObj), k_accent),
              None)

default_menu_color ==
    colour_at(get_or_raise(dict_get(cfg, k_defaults, EmptyObj), k_menu_color),
              Tup(<<0, 32, 64, 28>>))

s_breath == <<"b", "r", "e", "a", "t", "h">>
s_rainbow == <<"r", "a", "i", "n", "b", "o", "w">>

\* (a or "breath").lower()
mode_of(a) ==
    IF a = Raise THEN Raise
    ELSE IF ~Truthy(a) THEN Str(s_breath)
    ELSE IF a.t = "str" THEN Str(lower(a.s))
    ELSE Raise

default_attract_mode ==
    mode_of(get_or_raise(dict_get(cfg, k_defaults, EmptyObj), k_attract))

-----------------------------------------------------------------------------
(* Frames of the animation library *)

\* math.sin at the quarter points of one period, times 1000
SinMilli == <<0, 1000, 0, -1000>>
Period == Len(SinMilli)

\* 1000 * sin(t * speed), speed given times 1000
sin_milli(t, speed) == SinMilli[(((t * speed) \div 1000) % Period) + 1]

\* speed, minf and maxf are given times 1000
breath_frame(t, color, speed, minf, maxf) ==
    LET f1 == sin_milli(t, speed) + 1000
        lvl == (color[4] * (2000 * minf + (maxf - minf) * f1)) \div 2000000
    IN  [i \in 1..NUM_LEDS |->
            <<color[1], color[2], color[3], _clamp(lvl, 0, 255)>>]

\* a wipe that lights one LED at a time
wipe_frames_dot(color) ==
    [i \in 1..NUM_LEDS |->
        [k \in 1..NUM_LEDS |-> IF k = i THEN color ELSE <<0, 0, 0, 0>>]]

\* the NUM_LEDS frames wipe_frames yields
wipe_frames(color) ==
    [i \in 1..NUM_LEDS |->
        [k \in 1..NUM_LEDS |-> IF k <= i THEN color ELSE <<0, 0, 0, 0>>]]

\* int(x) of the rational num/den, den > 0
trunc_div(num, den) ==
    IF num >= 0 THEN num \div den ELSE 0 - ((0 - num) \div den)

\* the steps+1 frames fade_all yields
fade_all(from_lvl, to_lvl, ms_total) ==
    LET steps == Max(1, ms_total \div 20)
    IN  [s1 \in 1..(steps + 1) |->
            solid(0, 0, 0,
                  _clamp(trunc_div(from_lvl * steps
                                   + (to_lvl - from_lvl) * (s1 - 1), steps),
                         0, 255))]

\* one frame of the rainbow branch of idle_attract
rainbow_frame(t) ==
    [i1 \in 1..NUM_LEDS |->
        LET i == i1 - 1
            \* hue = (t*0.05 + i/NUM_LEDS) % 1.0, in units of 1/(20*NUM_LEDS)
            den == 20 * NUM_LEDS
            hue == (t * NUM_LEDS + i * 20) % den
            k == (6 * hue) \div den
            fr == (6 * hue) % den
            v == 24
            q == (v * (den - fr)) \div den
            tt == (v * fr) \div den
            rgb == CASE k = 0 -> <<v, tt, 0>>
                     [] k = 1 -> <<q, v, 0>>
                     [] k = 2 -> <<0, v, tt>>
                     [] k = 3 -> <<0, q, v>>
                     [] k = 4 -> <<tt, 0, v>>
                     [] OTHER -> <<v, 0, q>>
        IN  <<rgb[1], rgb[2], rgb[3], 20>>]

\* time.sleep(ms/1000) in clock quanta of 1/FPS second
Quanta(ms) == (ms * FPS) \div 1000

-----------------------------------------------------------------------------
(* Inputs of the codec and resolver specifications *)

MaxFrameLen == 8        \* longest frame handed to send_colors
MaxLayoutLen == 8       \* longest start_layout in a configuration

s_snes == <<"s", "n", "e", "s">>
s_nes == <<"n", "e", "s">>
s_Foo == <<"F", "o", "o">>
s_Bar == <<"B", "a", "r">>
s_empty == <<>>

Absent == [t |-> "absent"]

\* the JSON object with the given <<key, value>> members, Absent ones left out
Obj(members) ==
    LET present == {m \in members : m[2] # Absent}
        keys == {m[1] : m \in present}
    IN  JObj([key \in keys |-> (CHOOSE m \in present : m[1] = key)[2]])

Rgb(r, g, b, br) == Obj({<<k_r, JInt(r)>>, <<k_g, JInt(g)>>, <<k_b, JInt(b)>>,
                         <<k_br, br>>})

\* channels out of the byte range in both directions
CodecTuples == {<<0, 1, 2, 3>>, <<-1, 256, 255, 300>>, <<128, -300, 1000, 170>>}
CodecFrames == UNION {[1..n -> CodecTuples] : n \in 0..MaxFrameLen}

\* a start_layout of n {r,g,b,br} items whose channels are base+i
LayoutSpec == [n : 0..MaxLayoutLen, base : {10, 100}]
LayoutOf(l) ==
    IF l = Absent THEN Absent
    ELSE JList([i \in 1..l.n |->
                  Rgb(l.base + i, l.base + 20 + i, l.base + 40 + i,
                      JInt(l.base + 60 + i))])

CfgLayout(sysL, romL, romEntry) ==
    Obj({<<s_snes,
           Obj({<<k_start_layout, LayoutOf(sysL)>>,
                <<k_rom_overrides,
                  IF romEntry
                  THEN Obj({<<s_Foo, Obj({<<k_start_layout, LayoutOf(romL)>>})>>})
                  ELSE Absent>>,
                <<k_accent, Rgb(1, 2, 3, JInt(4))>>})>>})

LayoutArgs ==
    [fam : {"layout"}, sysL : {Absent, [n |-> 2, base |-> 10],
                               [n |-> MaxLayoutLen, base |-> 10]},
     romL : {Absent} \cup {l \in LayoutSpec : l.base = 100},
     romEntry : BOOLEAN]

\* brightness values a configuration may declare
BrDeclared == {-300, -1, 0, 24, 169, 170, 171, 255, 256, 1000}

CfgColour(br, useDefault) ==
    LET v == IF useDefault THEN Absent ELSE JInt(br)
    IN  Obj({<<s_snes,
               Obj({<<k_accent, Rgb(1, 2, 3, v)>>,
                    <<k_start_layout,
                      JList(<<Rgb(5, 6, 7, v), Rgb(300, -2, 7, v)>>)>>})>>,
             <<k_defaults, Obj({<<k_menu_color, Rgb(8, 9, 10, v)>>})>>})

ColourArgs == [fam : {"colour"}, br : BrDeclared, useDefault : BOOLEAN]

\* "#RRGGBB[:br]" items, well formed and not
ItemPrefixes == {<<"#">>, <<>>, <<" ", "#">>, <<"x">>}
ItemPairs == {<<"0", "0">>, <<"F", "F">>, <<"8", "0">>, <<"G", "G">>, <<"0">>}
ItemSuffixes == {<<>>, <<":", "1", "0">>, <<":", "2", "5", "5">>, <<":">>,
                 <<":", "x">>, <<":", "1", "7", "0">>, <<" ">>}
ItemArgs == [fam : {"item"}, pre : ItemPrefixes, p1 : ItemPairs,
             p2 : ItemPairs, p3 : ItemPairs, suf : ItemSuffixes]
ItemStr(a) == a.pre \o a.p1 \o a.p2 \o a.p3 \o a.suf

CfgItem(a) ==
    Obj({<<s_snes, Obj({<<k_start_layout, JList(<<JStr(ItemStr(a))>>)>>})>>})

\* configurations that break the documented schema, one way each
MalformedCfgs == <<
    Obj({<<s_snes, JInt(5)>>}),
    Obj({<<s_snes, JStr(<<"x">>)>>}),
    Obj({<<s_snes, JList(<<JStr(k_accent)>>)>>}),
    Obj({<<s_snes, Obj({<<k_accent, Obj({<<k_br, JStr(<<"x">>)>>})>>})>>}),
    Obj({<<s_snes, Obj({<<k_accent, Obj({<<k_r, JNull>>})>>})>>}),
    Obj({<<s_snes, Obj({<<k_accent, JStr(<<"r", "e", "d">>)>>})>>}),
    Obj({<<s_snes, Obj({<<k_start_layout, JInt(5)>>})>>}),
    Obj({<<s_snes, Obj({<<k_start_layout, Obj({<<k_r, JInt(1)>>})>>})>>}),
    Obj({<<s_snes, Obj({<<k_start_layout,
                          JList(<<Obj({<<k_r, JStr(<<"x">>)>>})>>)>>})>>}),
    Obj({<<s_snes, Obj({<<k_rom_overrides, JList(<<JStr(s_Foo)>>)>>})>>}),
    Obj({<<s_snes, Obj({<<k_rom_overrides, Obj({<<s_Foo, JInt(5)>>})>>})>>}),
    Obj({<<k_defaults, JList(<<JStr(<<"x">>)>>)>>}),
    Obj({<<k_defaults, Obj({<<k_attract, JInt(5)>>})>>}),
    Obj({<<k_defaults, Obj({<<k_menu_color, Obj({<<k_b, JStr(<<"x">>)>>})>>})>>}),
    Obj({<<k_defaults, Obj({<<k_menu_color, JStr(<<"b">>)>>,
                            <<k_attract, JStr(<<>>)>>})>>}),
    EmptyObj,
    Obj({<<k_defaults, Obj({<<k_attract, JStr(<<"R", "a", "i", "n", "b", "o", "w">>)>>})>>}),
    Obj({<<s_snes, Obj({<<k_start_layout, JStr(<<"#", "0", "0", "0", "0", "F", "F">>)>>})>>}),
    Obj({<<s_snes, Obj({<<k_accent, Obj({<<k_br, JStr(<<"1", "2">>)>>})>>})>>}) >>

MalformedArgs == [fam : {"malformed"}, id : 1..Len(MalformedCfgs)]

SysKeys == {s_snes, s_nes, s_empty}
RomKeys == {s_Foo, s_Bar, s_empty}

NoCall == [op |-> "none", system_key |-> s_empty, rom_key |-> s_empty,
           out |-> None]
Call(op, sk, rk, out) ==
    [op |-> op, system_key |-> sk, rom_key |-> rk, out |-> out]

\* the daemon is not running in SpecCodec and SpecResolve
DaemonOff ==
    /\ file = EmptyObj /\ running = FALSE /\ pc = "off"
    /\ current_idle = None /\ since = 0 /\ now = 0
    /\ fifo = <<>> /\ rbuf = <<>> /\ evt = None /\ step = 0
    /\ wrote = 0 /\ serOpen = FALSE

-----------------------------------------------------------------------------
(* SpecCodec: one frame is handed to send_colors *)

InitCodec ==
    /\ arg \in [fam : {"frame"}, frame : CodecFrames]
    /\ cfg = EmptyObj /\ res = NoCall /\ last = <<>>
    /\ DaemonOff

Send ==
    /\ res = NoCall
    /\ last' = send_colors(arg.frame)
    /\ res' = Call("send_colors", s_empty, s_empty, None)
    /\ UNCHANGED <<daemonVars, arg>>

NextCodec == Send

SpecCodec == InitCodec /\ [][NextCodec]_vars

-----------------------------------------------------------------------------
(* SpecResolve: a configuration is loaded and the resolvers are called *)

InitResolve ==
    /\ \/ /\ arg \in LayoutArgs
          /\ cfg = CfgLayout(arg.sysL, arg.romL, arg.romEntry)
       \/ /\ arg \in ColourArgs
          /\ cfg = CfgColour(arg.br, arg.useDefault)
       \/ /\ arg \in ItemArgs
          /\ cfg = CfgItem(arg)
       \/ /\ arg \in MalformedArgs
          /\ cfg = MalformedCfgs[arg.id]
    /\ res = NoCall /\ last = <<>>
    /\ DaemonOff

CallStartLayout ==
    \E sk \in SysKeys, rk \in RomKeys :
        /\ res' = Call("lookup_start_layout", sk, rk,
                       lookup_start_layout(sk, rk))
        /\ UNCHANGED <<daemonVars, arg, last>>

CallAccent ==
    \E sk \in SysKeys :
        /\ res' = Call("system_accent", sk, s_empty, system_accent(sk))
        /\ UNCHANGED <<daemonVars, arg, last>>

CallMenuColor ==
    /\ res' = Call("default_menu_color", s_empty, s_empty, default_menu_color)
    /\ UNCHANGED <<daemonVars, arg, last>>

CallAttractMode ==
    /\ res' = Call("default_attract_mode", s_empty, s_empty,
                   default_attract_mode)
    /\ UNCHANGED <<daemonVars, arg, last>>

NextResolve ==
    \/ CallStartLayout
    \/ CallAccent
    \/ CallMenuColor
    \/ CallAttractMode

SpecResolve == InitResolve /\ [][NextResolve]_vars

-----------------------------------------------------------------------------
(* Properties of the codec and the resolvers *)

ByteOf(x) == IF x < 0 THEN 0 ELSE IF x > 255 THEN 255 ELSE x

\* C1: whatever frame send is given, the bytes written are HEADER followed
\* by NUM_LEDS groups of 4 bytes; group i is the clamped (b, g, r, br) of the
\* tuple at index ORDER[i], or four zero bytes when the frame has no such
\* index; the length is len(HEADER) + 4*NUM_LEDS.
C1_FrameBytes ==
    res.op = "send_colors" =>
        /\ Len(last) = Len(HEADER) + 4 * NUM_LEDS
        /\ SubSeq(last, 1, Len(HEADER)) = HEADER
        /\ \A i \in 1..NUM_LEDS : \A ch \in 1..4 :
              last[Len(HEADER) + 4 * (i - 1) + ch] =
                  IF ORDER[i] \in 0..(Len(arg.frame) - 1)
                  THEN ByteOf(arg.frame[ORDER[i] + 1][ch])
                  ELSE 0

\* a short frame with channels below 0 and above 255 has been sent
C1_Witness ==
    /\ res.op = "send_colors"
    /\ arg.frame = << <<-1, 256, 255, 300>>, <<128, -300, 1000, 170>> >>
    /\ SubSeq(last, Len(HEADER) + 1, Len(HEADER) + 12) =
           <<0, 255, 255, 255, 128, 0, 255, 170, 0, 0, 0, 0>>

\* the frame the resolver must build from a LayoutSpec
ExpectLayout(l) ==
    [i \in 1..NUM_LEDS |->
        IF i <= l.n
        THEN <<l.base + 40 + i, l.base + 20 + i, l.base + i, l.base + 60 + i>>
        ELSE <<0, 0, 0, 0>>]

\* C2: resolveStartLayout returns the ROM-specific layout when the system
\* has one for romKey, else the system-level layout when there is one, else
\* none (also when the system key is not configured); a returned layout has
\* exactly NUM_LEDS tuples, truncated or zero-padded.
C2_Precedence ==
    (arg.fam = "layout" /\ res.op = "lookup_start_layout") =>
        LET onSnes == res.system_key = s_snes
            romHit == /\ onSnes /\ arg.romEntry /\ arg.romL # Absent
                      /\ res.rom_key = s_Foo
            sysHit == onSnes /\ arg.sysL # Absent
        IN  /\ res.out = IF romHit THEN Cols(ExpectLayout(arg.romL))
                         ELSE IF sysHit THEN Cols(ExpectLayout(arg.sysL))
                         ELSE None
            /\ res.out # None => Len(res.out.f) = NUM_LEDS

\* both layouts are configured, the ROM one is longer than the strip, and it
\* was the one returned
C2_Witness ==
    /\ arg.fam = "layout" /\ res.op = "lookup_start_layout"
    /\ arg.sysL # Absent /\ arg.romEntry /\ arg.romL # Absent
    /\ arg.romL.n > NUM_LEDS
    /\ res.system_key = s_snes /\ res.rom_key = s_Foo
    /\ res.out = Cols(ExpectLayout(arg.romL))
    /\ res.out # Cols(ExpectLayout(arg.sysL))

\* C3: every tuple the resolvers return has its brightness in
\* [0, BRIGHT_LIMIT], whatever the configuration declares.
C3_BrightnessCapped ==
    /\ res.out.k = "cols" =>
          \A i \in 1..Len(res.out.f) : res.out.f[i][4] \in 0..BRIGHT_LIMIT
    /\ res.out.k = "tuple" => res.out.c[4] \in 0..BRIGHT_LIMIT

\* the accent declares brightness 255 and comes back capped
C3_Witness ==
    /\ arg.fam = "colour" /\ arg.br = 255 /\ ~arg.useDefault
    /\ res.op = "system_accent" /\ res.system_key = s_snes
    /\ res.out = Tup(<<3, 2, 1, BRIGHT_LIMIT>>)

\* what the two characters of a colour position stand for
PairValue(p) ==
    CASE p = <<"0", "0">> -> 0
      [] p = <<"F", "F">> -> 255
      [] p = <<"8", "0">> -> 128
IsHexPair(p) == p \in {<<"0", "0">>, <<"F", "F">>, <<"8", "0">>}

\* the brightness a suffix declares, 64 when it declares none
SuffixBrightness(suf) ==
    CASE suf = <<":", "1", "0">> -> 10
      [] suf = <<":", "2", "5", "5">> -> 255
      [] suf = <<":", "1", "7", "0">> -> 170
      [] OTHER -> 64

\* C4: "#RRGGBB:br" parses to (BB, GG, RR, min(br, BRIGHT_LIMIT)), the
\* brightness is 64 when absent or not an integer, and every malformed hex
\* string yields the all-zero tuple rather than an error.
C4_ItemParse ==
    (/\ arg.fam = "item" /\ res.op = "lookup_start_layout"
     /\ res.system_key = s_snes
     /\ arg.pre # <<" ", "#">> /\ arg.suf # <<" ">>) =>
        LET wellFormed == /\ arg.pre = <<"#">>
                          /\ IsHexPair(arg.p1) /\ IsHexPair(arg.p2)
                          /\ IsHexPair(arg.p3)
            first == IF wellFormed
                     THEN <<PairValue(arg.p3), PairValue(arg.p2),
                            PairValue(arg.p1),
                            Min(SuffixBrightness(arg.suf), BRIGHT_LIMIT)>>
                     ELSE <<0, 0, 0, 0>>
        IN  res.out = Cols([i \in 1..NUM_LEDS |->
                              IF i = 1 THEN first ELSE <<0, 0, 0, 0>>])

\* C5: whatever the configuration holds, the resolvers return a value and
\* never raise.
C5_NeverRaises == res.out # Raise

-----------------------------------------------------------------------------
(* The daemon: event names, event decoding, handlers *)

e_menu == <<"m", "e", "n", "u">>
e_game_start == <<"g", "a", "m", "e", "-", "s", "t", "a", "r", "t">>
e_game_end == <<"g", "a", "m", "e", "-", "e", "n", "d">>
e_shutdown == <<"s", "h", "u", "t", "d", "o", "w", "n">>
e_reboot == <<"r", "e", "b", "o", "o", "t">>
e_settings_changed == <<"s", "e", "t", "t", "i", "n", "g", "s", "-", "c", "h", "a", "n", "g", "e", "d">>
e_controls_changed == <<"c", "o", "n", "t", "r", "o", "l", "s", "-", "c", "h", "a", "n", "g", "e", "d">>
e_attract_on == <<"a", "t", "t", "r", "a", "c", "t", "-", "o", "n">>
e_attract_off == <<"a", "t", "t", "r", "a", "c", "t", "-", "o", "f", "f">>
e_solid == <<"s", "o", "l", "i", "d">>
e_off == <<"o", "f", "f">>
e_reload_config == <<"r", "e", "l", "o", "a", "d", "-", "c", "o", "n", "f", "i", "g">>

RecognizedNames ==
    {e_menu, e_game_start, e_game_end, e_shutdown,
     e_reboot, e_settings_changed, e_controls_changed, e_attract_on,
     e_attract_off, e_solid, e_off, e_reload_config}

k_SystemId == <<"S", "y", "s", "t", "e", "m", "I", "d">>
k_System == <<"S", "y", "s", "t", "e", "m">>
k_RomPath == <<"R", "o", "m", "P", "a", "t", "h">>

\* load_config that drops what it read
load_config_empty(f) == EmptyObj

\* a load that keeps the held configuration when the file cannot be used
load_config_stale(f) == IF f.t = "obj" THEN f ELSE cfg

\* load_config: what _cfg is after reading a file whose content is f
load_config(f) == IF f.t = "obj" THEN f ELSE EmptyObj

\* (v or "") for a JSON value v that must then be a str: Str(s) or Raise
str_or_empty(v) ==
    IF ~Truthy(v) THEN Str(s_empty)
    ELSE IF v.t = "str" THEN Str(v.s)
    ELSE Raise

\* name = (evt.get("event") or "").lower()
event_name(e) ==
    IF e.t # "obj" THEN Raise
    ELSE LET v == str_or_empty(dict_get(e, k_event, JNull))
         IN  IF v = Raise THEN Raise ELSE Str(lower(v.s))

\* st is what read_es_state returns when system is not in the event
get_system_key(e, st) ==
    LET v == str_or_empty(dict_get(e, k_system, JNull))
    IN  IF v = Raise THEN Raise
        ELSE IF v.s # s_empty THEN Str(lower(v.s))
        ELSE LET a == dict_get(st, k_SystemId, JStr(s_empty))
                 b == dict_get(st, k_System, JStr(s_empty))
             IN  Str(lower(IF a.s # s_empty THEN a.s ELSE b.s))

\* os.path.basename
basename(path) == SubSeq(path, rfind(path, "/") + 1, Len(path))

\* os.path.splitext(base)[0]: the extension starts at the last dot, unless
\* only dots stand before it
splitext_root(base) ==
    LET d == rfind(base, ".")
    IN  IF d > 0 /\ \E j \in 1..(d - 1) : base[j] # "."
        THEN SubSeq(base, 1, d - 1)
        ELSE base

\* st is what read_es_state returns when the event names no ROM
get_rom_key(e, st) ==
    LET r1 == dict_get(e, k_rom, JNull)
        r2 == dict_get(e, k_rompath, JNull)
        rp == IF Truthy(r1) THEN r1
              ELSE IF Truthy(r2) THEN r2
              ELSE dict_get(st, k_RomPath, JStr(s_empty))
    IN  IF rp.t # "str" THEN Raise ELSE Str(splitext_root(basename(rp.s)))

PulseQuanta == 3        \* clock quanta the menu pulse lasts (seconds * FPS)

Anim(f) == [k |-> "anim", f |-> f]
Show(cols, ms) == [kind |-> "cols", cols |-> cols, q |-> Quanta(ms)]
ShowAll(frames, ms) == [i \in 1..Len(frames) |-> Show(frames[i], ms)]

\* one pass of the loop of anim_menu_pulse shows breath_frame of the clock
anim_menu_pulse(accent) ==
    LET base == IF accent # None THEN accent ELSE default_menu_color
    IN  IF base = Raise THEN Raise
        ELSE Anim([i \in 1..PulseQuanta |->
                     [kind |-> "pulse",
                      cols |-> [j \in 1..NUM_LEDS |-> base.c], q |-> 1]])

\* anim_game_start that plays the wipe after the layout
anim_game_start_fallthrough(system_key, rom_key) ==
    LET layout == lookup_start_layout(system_key, rom_key)
        acc == system_accent(system_key)
        accent == IF acc = None THEN <<0, 64, 0, BRIGHT_LIMIT>> ELSE acc.c
    IN  IF layout = Raise \/ acc = Raise THEN Raise
        ELSE Anim((IF layout # None THEN <<Show(layout.f, 1000)>> ELSE <<>>)
                  \o ShowAll(wipe_frames(accent), 40)
                  \o <<Show(solid(0, 0, 0, 18), 250)>>)

anim_game_start(system_key, rom_key) ==
    LET layout == lookup_start_layout(system_key, rom_key)
    IN  IF layout = Raise THEN Raise
        ELSE IF layout # None THEN Anim(<<Show(layout.f, 1000)>>)
        ELSE LET acc == system_accent(system_key)
                 accent == IF acc = None THEN <<0, 64, 0, BRIGHT_LIMIT>>
                           ELSE acc.c
             IN  IF acc = Raise THEN Raise
                 ELSE Anim(ShowAll(wipe_frames(accent), 40)
                           \o <<Show(solid(0, 0, 0, 18), 250)>>)

anim_game_end ==
    Anim(ShowAll(wipe_frames(<<64, 0, 0, BRIGHT_LIMIT>>), 40)
         \o ShowAll(fade_all(28, 10, 600), 20))

anim_shutdown ==
    LET flash == <<Show(solid(0, 0, 0, BRIGHT_LIMIT), 80),
                   Show(solid(0, 0, 0, 8), 100)>>
    IN  Anim(flash \o flash \o flash \o ShowAll(fade_all(24, 0, 900), 20))

anim_reboot ==
    Anim(ShowAll(wipe_frames(<<0, 64, 0, BRIGHT_LIMIT>>), 35)
         \o ShowAll(wipe_frames(<<64, 0, 0, BRIGHT_LIMIT>>), 35)
         \o ShowAll(fade_all(28, 0, 500), 20))

anim_settings_changed ==
    LET flash == <<Show(solid(32, 32, 0, BRIGHT_LIMIT), 120),
                   Show(all_off, 80)>>
    IN  Anim(flash \o flash \o flash)

-----------------------------------------------------------------------------
(* Idle generators.  A generator body runs from its first next(): base and *)
(* t0 are set then, not when the generator object is made.                 *)

idle_menu(accent) ==
    [kind |-> "menu", accent |-> accent, mode |-> s_empty,
     started |-> FALSE, base |-> <<0, 0, 0, 0>>, t0 |-> 0]

idle_attract(mode) ==
    [kind |-> "attract", accent |-> None, mode |-> mode,
     started |-> FALSE, base |-> <<0, 0, 0, 0>>, t0 |-> 0]

\* the generator after running up to its first yield at clock t: the
\* generator, or Raise
idle_started(gen, t) ==
    IF gen.started THEN gen
    ELSE IF gen.kind = "menu"
    THEN LET base == IF gen.accent # None THEN gen.accent
                     ELSE default_menu_color
         IN  IF base = Raise THEN Raise
             ELSE [gen EXCEPT !.started = TRUE, !.base = base.c, !.t0 = t]
    ELSE [gen EXCEPT !.started = TRUE, !.t0 = t]

\* the frame a started generator yields at clock t
idle_frame(gen, t) ==
    LET el == (t - gen.t0) % Period
    IN  IF gen.kind = "menu" THEN breath_frame(el, gen.base, 800, 200, 800)
        ELSE IF gen.mode = s_rainbow THEN rainbow_frame(el)
        ELSE breath_frame(el, <<0, 0, 0, 28>>, 600, 150, 600)

-----------------------------------------------------------------------------
(* The main loop *)

IDLE_TICKS == FPS \div 30       \* the 1/30 s idle interval, in clock quanta
POLL_TICKS == Quanta(50)        \* the 50 ms poll timeout, in clock quanta

NoEvt == [name |-> s_empty, syskey |-> s_empty, romkey |-> s_empty,
          accent |-> None, e |-> EmptyObj]

\* a dispatch that blanks the strip whatever the event is
handler_steps_loud(ev) == Anim(<<Show(all_off, 0)>>)

\* the frames the handler of ev sends, in order: Anim(steps), or Raise
handler_steps(ev) ==
    CASE ev.name = e_menu -> anim_menu_pulse(ev.accent)
      [] ev.name = e_game_start -> anim_game_start(ev.syskey, ev.romkey)
      [] ev.name = e_game_end -> anim_game_end
      [] ev.name = e_shutdown -> anim_shutdown
      [] ev.name = e_reboot -> anim_reboot
      [] ev.name \in {e_settings_changed, e_controls_changed} ->
            anim_settings_changed
      [] ev.name = e_solid ->
            LET b == py_int(dict_get(ev.e, k_b, JInt(0)))
                g == py_int(dict_get(ev.e, k_g, JInt(0)))
                r == py_int(dict_get(ev.e, k_r, JInt(0)))
                br == py_int(dict_get(ev.e, k_br, JInt(24)))
            IN  IF b = Raise \/ g = Raise \/ r = Raise \/ br = Raise
                THEN Raise
                ELSE Anim(<<Show(solid(b.n, g.n, r.n, br.n), 0)>>)
      [] ev.name = e_off -> Anim(<<Show(all_off, 0)>>)
      [] OTHER -> Anim(<<>>)

\* the handler that replaces the idle generator on every event
next_idle_always(ev, old) ==
    IF ev.name = e_attract_on
    THEN LET m == default_attract_mode
         IN  IF m = Raise THEN Raise ELSE idle_attract(m.s)
    ELSE IF ev.name = e_menu THEN idle_menu(ev.accent)
    ELSE LET a == system_accent(ev.syskey)
         IN  IF a = Raise THEN Raise ELSE idle_menu(a)

\* the handler that never replaces the idle generator
next_idle_keep(ev, old) == old

\* current_idle when the handler of ev returns: a generator, or Raise
next_idle(ev, old) ==
    CASE ev.name = e_menu -> idle_menu(ev.accent)
      [] ev.name \in {e_game_start, e_game_end, e_attract_off} ->
            LET a == system_accent(ev.syskey)
            IN  IF a = Raise THEN Raise ELSE idle_menu(a)
      [] ev.name = e_attract_on ->
            LET m == default_attract_mode
            IN  IF m = Raise THEN Raise ELSE idle_attract(m.s)
      [] OTHER -> old

\* ser.write of one frame
SerWrite(cols) ==
    /\ last' = send_colors(cols)
    /\ wrote' = wrote + 1

\* a finally block that closes the sink without the all-off frame
Finally_quiet ==
    /\ serOpen' = FALSE
    /\ pc' = "done"
    /\ UNCHANGED <<wrote, last>>

\* the finally block of main, entered from the loop or by an exception
Finally ==
    /\ SerWrite(all_off)
    /\ serOpen' = FALSE
    /\ pc' = "done"

\* the locals of main after a line decoded to e has been dispatched up to the
\* first frame; keys the handler does not use again are not kept
Locals(e, name, sk, rk, accent) ==
    [name |-> name,
     syskey |-> IF name \in {e_menu, e_game_start, e_game_end, e_attract_off}
                THEN sk ELSE s_empty,
     romkey |-> IF name = e_game_start THEN rk ELSE s_empty,
     accent |-> accent,
     e |-> e]

\* a line of the FIFO: the JSON value it decodes to, a line json.loads
\* rejects, or a line that is empty once stripped
Json(v) == [kind |-> "json", v |-> v]
Garbled == [kind |-> "garbled", v |-> JNull]
Blank == [kind |-> "blank", v |-> JNull]

\* evt after json.loads(line), {} when it raised
decode(line) == IF line.kind = "json" THEN line.v ELSE EmptyObj

EventLines == {
    Json(Obj({<<k_event, JStr(<<"m", "e", "n", "u">>)>>, <<k_system, JStr(<<"S", "N", "E", "S">>)>>})),
    Json(Obj({<<k_event, JStr(<<"M", "e", "n", "u">>)>>})),
    Json(Obj({<<k_event, JStr(<<"g", "a", "m", "e", "-", "s", "t", "a", "r", "t">>)>>, <<k_system, JStr(<<"s", "n", "e", "s">>)>>, <<k_rom, JStr(<<"/", "r", "o", "m", "s", "/", "s", "n", "e", "s", "/", "F", "o", "o", ".", "s", "f", "x">>)>>})),
    Json(Obj({<<k_event, JStr(<<"g", "a", "m", "e", "-", "s", "t", "a", "r", "t">>)>>, <<k_system, JStr(<<"s", "n", "e", "s">>)>>, <<k_rompath, JStr(<<"/", "r", "o", "m", "s", "/", "s", "n", "e", "s", "/", "B", "a", "r", ".", "s", "f", "c">>)>>})),
    Json(Obj({<<k_event, JStr(<<"g", "a", "m", "e", "-", "s", "t", "a", "r", "t">>)>>, <<k_system, JStr(<<"n", "e", "s">>)>>, <<k_rom, JStr(<<"x", ".", "n", "e", "s">>)>>})),
    Json(Obj({<<k_event, JStr(<<"g", "a", "m", "e", "-", "s", "t", "a", "r", "t">>)>>})),
    Json(Obj({<<k_event, JStr(<<"g", "a", "m", "e", "-", "e", "n", "d">>)>>, <<k_system, JStr(<<"s", "n", "e", "s">>)>>, <<k_rom, JStr(<<"a">>)>>})),
    Json(Obj({<<k_event, JStr(<<"a", "t", "t", "r", "a", "c", "t", "-", "o", "n">>)>>})),
    Json(Obj({<<k_event, JStr(<<"a", "t", "t", "r", "a", "c", "t", "-", "o", "f", "f">>)>>, <<k_system, JStr(<<"n", "e", "s">>)>>, <<k_rom, JStr(<<"a">>)>>})),
    Json(Obj({<<k_event, JStr(<<"s", "h", "u", "t", "d", "o", "w", "n">>)>>, <<k_system, JStr(<<"s", "n", "e", "s">>)>>, <<k_rom, JStr(<<"a">>)>>})),
    Json(Obj({<<k_event, JStr(<<"r", "e", "b", "o", "o", "t">>)>>, <<k_system, JStr(<<"s", "n", "e", "s">>)>>, <<k_rom, JStr(<<"a">>)>>})),
    Json(Obj({<<k_event, JStr(<<"s", "e", "t", "t", "i", "n", "g", "s", "-", "c", "h", "a", "n", "g", "e", "d">>)>>, <<k_system, JStr(<<"s", "n", "e", "s">>)>>, <<k_rom, JStr(<<"a">>)>>})),
    Json(Obj({<<k_event, JStr(<<"c", "o", "n", "t", "r", "o", "l", "s", "-", "c", "h", "a", "n", "g", "e", "d">>)>>, <<k_system, JStr(<<"s", "n", "e", "s">>)>>, <<k_rom, JStr(<<"a">>)>>})),
    Json(Obj({<<k_event, JStr(<<"s", "o", "l", "i", "d">>)>>, <<k_system, JStr(<<"s", "n", "e", "s">>)>>, <<k_rom, JStr(<<"a">>)>>, <<k_b, JInt(300)>>, <<k_g, JInt(-5)>>, <<k_r, JInt(0)>>, <<k_br, JInt(255)>>})),
    Json(Obj({<<k_event, JStr(<<"s", "o", "l", "i", "d">>)>>, <<k_br, JInt(-5)>>})),
    Json(Obj({<<k_event, JStr(<<"o", "f", "f">>)>>, <<k_system, JStr(<<"s", "n", "e", "s">>)>>, <<k_rom, JStr(<<"a">>)>>})),
    Json(Obj({<<k_event, JStr(<<"r", "e", "l", "o", "a", "d", "-", "c", "o", "n", "f", "i", "g">>)>>})),
    Json(Obj({<<k_event, JStr(<<"f", "o", "o">>)>>, <<k_system, JStr(<<"s", "n", "e", "s">>)>>, <<k_rom, JStr(<<"a">>)>>})),
    Garbled, Blank}

\* contents of the launcher state file as read_es_state returns them
EsStates == {
    EmptyObj,
    Obj({<<k_SystemId, JStr(<<"S", "N", "E", "S">>)>>,
         <<k_RomPath, JStr(<<"/", "r", "o", "m", "s", "/", "s", "n", "e", "s", "/", "F", "o", "o", ".", "s", "f", "x">>)>>})}

\* contents of systems.json
FileFull ==
    Obj({<<s_snes,
           Obj({<<k_accent, Rgb(200, 10, 20, JInt(255))>>,
                <<k_start_layout,
                  JList(<<Rgb(1, 2, 3, JInt(30)),
                          JStr(<<"#", "0", "0", "F", "F", "8", "0", ":", "1", "0">>)>>)>>,
                <<k_rom_overrides,
                  Obj({<<s_Foo,
                         Obj({<<k_start_layout,
                                JList(<<Rgb(9, 8, 7, JInt(255)),
                                        Rgb(6, 5, 4, JInt(60))>>)>>})>>})>>})>>,
         <<s_nes, Obj({<<k_start_layout, Absent>>,
                       <<k_rom_overrides, Obj({<<s_Foo, EmptyObj>>})>>})>>,
         <<k_defaults,
           Obj({<<k_menu_color, Rgb(1, 2, 3, JInt(40))>>,
                <<k_attract, JStr(<<"R", "a", "i", "n", "b", "o", "w">>)>>})>>})
FileOther ==
    Obj({<<s_snes, Obj({<<k_accent, Rgb(0, 0, 90, Absent)>>})>>,
         <<s_nes,
           Obj({<<k_rom_overrides,
                  Obj({<<(<<"x">>),
                         Obj({<<k_start_layout,
                                JList(<<JStr(<<"#", "0", "0", "0", "0", "F", "F", ":", "3", "0", "0">>)>>)>>})>>})>>})>>,
         <<k_defaults, Obj({<<k_attract, JStr(s_breath)>>})>>})
FileMissing == [t |-> "unreadable"]
Files == {FileFull, FileOther}

-----------------------------------------------------------------------------
(* Actions of the daemon *)

InitDaemon ==
    /\ file \in Files
    /\ cfg = load_config(file)
    /\ running = TRUE
    /\ pc = "start"
    /\ current_idle = idle_menu(None)
    /\ since = IDLE_TICKS
    /\ now \in 0..(Period - 1)
    /\ fifo = <<>> /\ rbuf = <<>>
    /\ evt = NoEvt /\ step = 0 /\ wrote = 0
    /\ last = <<>>
    /\ serOpen = TRUE
    /\ arg = [fam |-> "daemon"]
    /\ res = NoCall

\* open_fifo_reader returns: main enters the try block and the loop
OpenFifo ==
    /\ pc = "start"
    /\ pc' = "loop"
    /\ UNCHANGED <<cfg, file, running, current_idle, since, now, fifo, rbuf,
                   evt, step, wrote, last, serOpen, arg, res>>

\* open_fifo_reader raises (os.open or open fails): the call stands before
\* the try block, so the exception leaves main past the finally block
OpenFifoFails ==
    /\ pc = "start"
    /\ pc' = "exited"
    /\ UNCHANGED <<cfg, file, running, current_idle, since, now, fifo, rbuf,
                   evt, step, wrote, last, serOpen, arg, res>>

\* an exception leaves the loop through the finally block
Crash ==
    /\ Finally
    /\ UNCHANGED <<cfg, file, running, current_idle, since, now, evt, step,
                   arg, res>>

\* poll reports the FIFO readable after d quanta; one line is read and, unless
\* it is blank, dispatched up to the first frame of its handler (lines
\* 302-357)
PollReadable ==
    /\ pc = "loop" /\ running /\ fifo # <<>>
    /\ \E d \in 0..(POLL_TICKS - 1), st1 \in EsStates, st2 \in EsStates :
        LET buffered == rbuf # <<>>
            line == IF buffered THEN Head(rbuf) ELSE Head(fifo)
            e == decode(line)
            name == event_name(e)
            sk == get_system_key(e, st1)
            rk == get_rom_key(e, st2)
            acc == IF name.s = e_menu THEN system_accent(sk.s) ELSE None
            ev == Locals(e, name.s, sk.s, rk.s, acc)
        IN  /\ rbuf' = IF buffered THEN Tail(rbuf) ELSE Tail(fifo)
            /\ fifo' = IF buffered THEN fifo ELSE <<>>
            /\ IF line.kind = "blank"
               THEN /\ pc' = "idle"
                    /\ now' = (now + d) % Period
                    /\ since' = Min(since + d, IDLE_TICKS)
                    /\ UNCHANGED <<cfg, file, running, current_idle, evt,
                                   step, wrote, last, serOpen, arg, res>>
               ELSE IF name = Raise
               THEN Crash
               ELSE IF name.s = e_reload_config
               THEN /\ cfg' = load_config(file)
                    /\ evt' = Locals(e, name.s, s_empty, s_empty, None)
                    /\ pc' = "handler"
                    /\ now' = (now + d) % Period
                    /\ since' = Min(since + d, IDLE_TICKS)
                    /\ UNCHANGED <<file, running, current_idle, step, wrote,
                                   last, serOpen, arg, res>>
               ELSE IF sk = Raise \/ rk = Raise
               THEN Crash
               ELSE IF acc = Raise
               THEN Crash
               ELSE IF handler_steps(ev) = Raise
               THEN Crash
               ELSE /\ evt' = ev
                    /\ pc' = "handler"
                    /\ now' = (now + d) % Period
                    /\ since' = Min(since + d, IDLE_TICKS)
                    /\ UNCHANGED <<cfg, file, running, current_idle, step,
                                   wrote, last, serOpen, arg, res>>

\* poll times out with nothing to read
PollTimeout ==
    /\ pc = "loop" /\ running /\ fifo = <<>>
    /\ pc' = "idle"
    /\ now' = (now + POLL_TICKS) % Period
    /\ since' = Min(since + POLL_TICKS, IDLE_TICKS)
    /\ UNCHANGED <<cfg, file, running, current_idle, fifo, rbuf, evt, step,
                   wrote, last, serOpen, arg, res>>

\* a handler that drains the FIFO between two frames
SendFrame_drain ==
    /\ pc = "handler" /\ step < Len(handler_steps(evt).f)
    /\ LET st == handler_steps(evt).f[step + 1]
       IN  /\ SerWrite(IF st.kind = "pulse"
                       THEN breath_frame(now, st.cols[1], 1000, 300, 900)
                       ELSE st.cols)
           /\ now' = (now + st.q) % Period
           /\ since' = Min(since + st.q, IDLE_TICKS)
    /\ step' = step + 1
    /\ fifo' = <<>>
    /\ UNCHANGED <<cfg, file, running, pc, current_idle, rbuf, evt,
                   serOpen, arg, res>>

\* the running handler sends its next frame and sleeps
SendFrame ==
    /\ pc = "handler" /\ step < Len(handler_steps(evt).f)
    /\ LET st == handler_steps(evt).f[step + 1]
       IN  /\ SerWrite(IF st.kind = "pulse"
                       THEN breath_frame(now, st.cols[1], 1000, 300, 900)
                       ELSE st.cols)
           /\ now' = (now + st.q) % Period
           /\ since' = Min(since + st.q, IDLE_TICKS)
    /\ step' = step + 1
    /\ UNCHANGED <<cfg, file, running, pc, current_idle, fifo, rbuf, evt,
                   serOpen, arg, res>>

\* a return that leaves last_idle as it was
HandlerReturn_keep ==
    /\ pc = "handler" /\ step = Len(handler_steps(evt).f)
    /\ next_idle(evt, current_idle) # Raise
    /\ current_idle' = next_idle(evt, current_idle)
    /\ pc' = "idle"
    /\ UNCHANGED <<cfg, file, running, since, now, fifo, rbuf, evt, step,
                   wrote, last, serOpen, arg, res>>

\* the handler returns: the idle generator is set and last_idle = 0.0
HandlerReturn ==
    /\ pc = "handler" /\ step = Len(handler_steps(evt).f)
    /\ LET ni == next_idle(evt, current_idle)
       IN  IF ni = Raise
           THEN /\ Finally
                /\ UNCHANGED <<cfg, file, running, current_idle, since, now,
                               fifo, rbuf, evt, step, arg, res>>
           ELSE /\ current_idle' = ni
                /\ since' = IDLE_TICKS
                /\ pc' = "idle"
                /\ UNCHANGED <<cfg, file, running, now, fifo, rbuf, evt,
                               step, wrote, last, serOpen, arg, res>>

\* the idle interval has passed: one idle frame is pulled and sent (lines
\* 361-365); the loop iteration ends
IdleTick ==
    /\ pc = "idle" /\ since >= IDLE_TICKS
    /\ \E g \in {idle_started(current_idle, now)} :
           IF g = Raise
           THEN /\ Finally
                /\ UNCHANGED <<cfg, file, running, current_idle, since, now,
                               fifo, rbuf, evt, step, arg, res>>
           ELSE /\ current_idle' = g
                /\ \E cols \in {idle_frame(g, now)} :
                       last' = send_colors(cols)
                /\ since' = 0
                /\ pc' = "loop"
                /\ evt' = NoEvt /\ step' = 0 /\ wrote' = 0
                /\ UNCHANGED <<cfg, file, running, now, fifo, rbuf, serOpen,
                               arg, res>>

\* the idle interval has not passed: the loop iteration ends
IdleSkip ==
    /\ pc = "idle" /\ since < IDLE_TICKS
    /\ pc' = "loop"
    /\ evt' = NoEvt /\ step' = 0 /\ wrote' = 0
    /\ UNCHANGED <<cfg, file, running, current_idle, since, now, fifo, rbuf,
                   last, serOpen, arg, res>>

\* running is false at the loop test: finally
Stop ==
    /\ pc = "loop" /\ ~running
    /\ Finally
    /\ UNCHANGED <<cfg, file, running, current_idle, since, now, fifo, rbuf,
                   evt, step, arg, res>>

\* SIGINT or SIGTERM is delivered: _stop
Signal ==
    /\ pc \notin {"done", "exited"} /\ running
    /\ running' = FALSE
    /\ UNCHANGED <<cfg, file, pc, current_idle, since, now, fifo, rbuf, evt,
                   step, wrote, last, serOpen, arg, res>>

\* a writer puts one line into the empty FIFO.  The daemon reads the FIFO
\* only at poll, so a write during a handler is a write before the next poll.
WriteFifo ==
    /\ pc = "loop" /\ fifo = <<>>
    /\ \E l \in EventLines : fifo' = <<l>>
    /\ UNCHANGED <<cfg, file, running, pc, current_idle, since, now, rbuf,
                   evt, step, wrote, last, serOpen, arg, res>>

\* systems.json is replaced on disk.  The daemon reads it only in the
\* reload-config handler.
EditFile ==
    /\ pc = "loop"
    /\ \E f \in Files \ {file} : file' = f
    /\ UNCHANGED <<cfg, running, pc, current_idle, since, now, fifo, rbuf,
                   evt, step, wrote, last, serOpen, arg, res>>

Init == InitDaemon

Next ==
    \/ OpenFifo
    \/ OpenFifoFails
    \/ PollReadable
    \/ PollTimeout
    \/ SendFrame
    \/ HandlerReturn
    \/ IdleTick
    \/ IdleSkip
    \/ Stop
    \/ Signal
    \/ WriteFifo
    \/ EditFile

Spec == Init /\ [][Next]_vars

-----------------------------------------------------------------------------
(* SpecEnv: the daemon with writers that write while a handler runs, lines *)
(* that are no well-formed event, and a configuration file that breaks     *)

\* non-empty lines that are no well-formed event: a line json.loads rejects,
\* JSON that is no object, an event that is no str, a colour that is no number
BadLines == {
    Garbled,
    Json(JInt(5)),
    Json(Obj({<<k_event, JInt(5)>>})),
    Json(Obj({<<k_event, JStr(e_solid)>>, <<k_b, JStr(<<"x">>)>>}))}

GoodLines == {
    Json(Obj({<<k_event, JStr(e_menu)>>, <<k_system, JStr(s_snes)>>})),
    Json(Obj({<<k_event, JStr(e_game_end)>>})),
    Json(Obj({<<k_event, JStr(e_reload_config)>>})),
    Json(Obj({<<k_event, JStr(e_off)>>})),
    Blank}

\* SYSTEMS_JSON is unreadable, or holds JSON that is no object
BrokenFiles == {FileMissing, JList(<<JInt(1)>>)}

InitEnv ==
    /\ InitDaemon
    /\ file = FileFull /\ now = 0

\* a writer puts one line into the empty FIFO, also while a handler runs
WriteEnv ==
    /\ pc \in {"loop", "handler"} /\ fifo = <<>>
    /\ \E l \in GoodLines \cup BadLines : fifo' = <<l>>
    /\ UNCHANGED <<cfg, file, running, pc, current_idle, since, now, rbuf,
                   evt, step, wrote, last, serOpen, arg, res>>

\* systems.json is removed or overwritten with JSON that is no object
BreakFile ==
    /\ pc = "loop" /\ file \notin BrokenFiles
    /\ \E f \in BrokenFiles : file' = f
    /\ UNCHANGED <<cfg, running, pc, current_idle, since, now, fifo, rbuf,
                   evt, step, wrote, last, serOpen, arg, res>>

NextEnv ==
    \/ OpenFifo
    \/ PollReadable
    \/ PollTimeout
    \/ SendFrame
    \/ HandlerReturn
    \/ IdleTick
    \/ IdleSkip
    \/ Stop
    \/ Signal
    \/ WriteEnv
    \/ BreakFile

SpecEnv == InitEnv /\ [][NextEnv]_vars

-----------------------------------------------------------------------------
(* SpecLive: the daemon as a process that keeps taking steps, with writers *)
(* that write one or two lines at once                                     *)

LiveLines == {
    Json(Obj({<<k_event, JStr(e_off)>>})),
    Json(Obj({<<k_event, JStr(e_settings_changed)>>})),
    Blank}

\* what one write(2) of a writer puts into the FIFO
Chunks ==
    {<<l>> : l \in LiveLines} \cup
    {<<l1, l2>> : l1 \in LiveLines, l2 \in LiveLines}

InitLive ==
    /\ InitDaemon
    /\ file = FileFull /\ now = 0

\* a writer writes one or two complete lines with one write while the daemon
\* polls; they become readable together
WriteChunk ==
    /\ pc = "loop" /\ fifo = <<>>
    /\ \E c \in Chunks : fifo' = c
    /\ UNCHANGED <<cfg, file, running, pc, current_idle, since, now, rbuf,
                   evt, step, wrote, last, serOpen, arg, res>>

\* the steps of the daemon's own thread
DaemonStep ==
    \/ OpenFifo
    \/ PollReadable
    \/ PollTimeout
    \/ SendFrame
    \/ HandlerReturn
    \/ IdleTick
    \/ IdleSkip
    \/ Stop

NextLive ==
    \/ DaemonStep
    \/ Signal
    \/ WriteChunk

\* the thread of main is scheduled again and again, poll(50) and sleep
\* return; writers and signals come when they come
SpecLive == InitLive /\ [][NextLive]_vars /\ WF_vars(DaemonStep)

-----------------------------------------------------------------------------
(* Properties of the daemon *)

\* the bytes of a frame whose LEDs are all (0, 0, 0, 0)
ZeroFrame == HEADER \o [i \in 1..(4 * NUM_LEDS) |-> 0]

\* the bytes of a frame that starts with the given channels and is zero after
FrameOf(channels) ==
    HEADER \o channels \o [i \in 1..(4 * NUM_LEDS - Len(channels)) |-> 0]

\* the event of the line being handled has the given str field
HasField(key) == key \in DOMAIN evt.e.o /\ evt.e.o[key].t = "str"

\* the frame the idle tick sends from generator g at the present clock
IdleFrameNow(g) == send_colors(idle_frame(idle_started(g, now), now))

\* C6: an event whose name is not a recognized one leaves the idle generator
\* unchanged and writes no frame while it is dispatched; the frame that
\* follows is the regular idle frame of the unchanged generator.
C6_UnknownIgnored ==
    [][/\ (pc' = "handler" /\ evt'.name \notin RecognizedNames) =>
             /\ current_idle' = current_idle
             /\ last' = last /\ wrote' = 0
       /\ (pc = "handler" /\ evt.name \notin RecognizedNames) =>
             /\ pc' \in {"handler", "idle"}
             /\ current_idle' = current_idle
             /\ last' = last /\ wrote' = 0
             /\ pc' = "idle" => since' >= IDLE_TICKS
       /\ (pc = "idle" /\ evt.name \notin RecognizedNames /\ pc' # "idle"
           /\ since >= IDLE_TICKS) =>
             /\ last' = IdleFrameNow(current_idle)
             /\ current_idle' = idle_started(current_idle, now)
      ]_vars

\* an event named "foo" was dispatched while the attract idle was running and
\* its handler has returned without a frame
C6_Witness ==
    /\ pc = "idle" /\ evt.name = <<"f", "o", "o">> /\ evt.e # EmptyObj
    /\ wrote = 0
    /\ current_idle.kind = "attract" /\ current_idle.started

\* the colour the idle-menu generator must breathe after an event that
\* resolved to system sys: the accent the configuration declares for sys,
\* else its defaults.menu_color, else the design default
ExpectSeed(sys) ==
    CASE cfg = FileFull /\ sys = s_snes -> <<20, 10, 200, BRIGHT_LIMIT>>
      [] cfg = FileFull /\ sys # s_snes -> <<3, 2, 1, 40>>
      [] cfg = FileOther /\ sys = s_snes -> <<90, 0, 0, 24>>
      [] OTHER -> <<0, 32, 64, 28>>

\* the idle generator is a new idle-menu that breathes colour at first use
IsIdleMenu(colour) ==
    /\ current_idle.kind = "menu" /\ ~current_idle.started
    /\ idle_started(current_idle, now).base = colour
    /\ IdleFrameNow(current_idle) =
           send_colors(breath_frame(0, colour, 800, 200, 800))

\* the idle generator is a new idle-attract that shows the rainbow
IsRainbow ==
    /\ current_idle.kind = "attract" /\ ~current_idle.started
    /\ IdleFrameNow(current_idle) = send_colors(rainbow_frame(0))

\* the idle generator is a new idle-attract that breathes
IsBreath ==
    /\ current_idle.kind = "attract" /\ ~current_idle.started
    /\ IdleFrameNow(current_idle) =
           send_colors(breath_frame(0, <<0, 0, 0, 28>>, 600, 150, 600))

\* defaults.attract as the configuration gives it
AttractDeclared == cfg.o[k_defaults].o[k_attract].s

\* after menu, game-start, game-end and attract-off the idle generator is
\* idle-menu seeded for the event's system
MenuIdleAfter ==
    (pc = "idle" /\ evt.name \in {e_menu, e_game_start, e_game_end,
                                  e_attract_off}) =>
        /\ HasField(k_system) => evt.syskey = lower(evt.e.o[k_system].s)
        /\ IsIdleMenu(ExpectSeed(evt.syskey))

\* C7 as stated: after menu, game-start, game-end and attract-off the idle
\* generator is idle-menu seeded for the event's system; after attract-on it
\* is idle-attract, rainbow when defaults.attract is "rainbow" and breath for
\* any other value.
C7_IdleAfter_AsStated ==
    /\ MenuIdleAfter
    /\ (pc = "idle" /\ evt.name = e_attract_on) =>
           IF AttractDeclared = s_rainbow THEN IsRainbow ELSE IsBreath

\* C7: after menu, game-start, game-end and attract-off the idle generator is
\* idle-menu seeded for the event's system; after attract-on it is
\* idle-attract, rainbow when defaults.attract lower-cased is "rainbow" and
\* breath for any other value.
C7_IdleAfter ==
    /\ MenuIdleAfter
    /\ (pc = "idle" /\ evt.name = e_attract_on) =>
           IF lower(AttractDeclared) = s_rainbow THEN IsRainbow ELSE IsBreath

\* attract-on has returned under a configuration that spells the mode
\* "Rainbow", and the rainbow generator is installed
C7_Witness ==
    /\ pc = "idle" /\ evt.name = e_attract_on
    /\ AttractDeclared = <<"R", "a", "i", "n", "b", "o", "w">>
    /\ IsRainbow

\* the events that keep the idle generator
KeepNames == {e_reload_config, e_shutdown, e_reboot, e_settings_changed,
              e_controls_changed, e_solid, e_off}

\* C8: reload-config, shutdown, reboot, settings-changed, controls-changed,
\* solid and off never replace the idle generator: from dispatch to return
\* it stays the same generator (kind, colour, time origin), and the idle
\* frame that follows is pulled from it.
C8_IdleKept ==
    [][/\ evt'.name \in KeepNames => current_idle' = current_idle
       /\ (evt.name \in KeepNames /\ pc = "idle" /\ pc' = "loop") =>
             /\ current_idle' = idle_started(current_idle, now)
             /\ last' = IdleFrameNow(current_idle)
      ]_vars

\* settings-changed has played its six frames over a running attract idle
\* and has returned
C8_Witness ==
    /\ pc = "idle" /\ evt.name = e_settings_changed /\ wrote = 6
    /\ current_idle.kind = "attract" /\ current_idle.started

\* a game-start event for system sys and ROM path rompath is being handled
\* under configuration c
GameStartOf(c, sys, rompath) ==
    /\ pc \in {"handler", "idle"} /\ evt.name = e_game_start /\ cfg = c
    /\ HasField(k_system) /\ evt.e.o[k_system].s = sys
    /\ HasField(k_rom) /\ evt.e.o[k_rom].s = rompath

\* one frame, the layout, is all the handler writes, and the idle generator
\* after it is idle-menu of colour seed
OneLayoutFrame(layout, seed) ==
    /\ wrote <= 1
    /\ wrote = 1 => last = FrameOf(layout)
    /\ pc = "idle" => wrote = 1 /\ IsIdleMenu(seed)

p_foo == <<"/", "r", "o", "m", "s", "/", "s", "n", "e", "s", "/", "F", "o", "o", ".", "s", "f", "x">>
p_x == <<"x", ".", "n", "e", "s">>

\* C9: a game-start whose system and ROM basename (extension dropped) have a
\* rom_overrides start_layout writes exactly one frame, the layout, and no
\* wipe or hold frame; the idle generator after it is idle-menu seeded with
\* the system's accent, or the default menu colour when it declares none.
C9_OverrideOnly ==
    /\ GameStartOf(FileFull, s_snes, p_foo) =>
           OneLayoutFrame(<<7, 8, 9, BRIGHT_LIMIT, 4, 5, 6, 60>>,
                          <<20, 10, 200, BRIGHT_LIMIT>>)
    /\ GameStartOf(FileOther, s_nes, p_x) =>
           OneLayoutFrame(<<255, 0, 0, BRIGHT_LIMIT>>, <<0, 32, 64, 28>>)

\* the game-start of Foo.sfx on snes has returned after its one layout frame
C9_Witness ==
    /\ GameStartOf(FileFull, s_snes, p_foo) /\ pc = "idle"
    /\ evt.romkey = s_Foo
    /\ wrote = 1 /\ last = FrameOf(<<7, 8, 9, BRIGHT_LIMIT, 4, 5, 6, 60>>)

\* C10: whatever came before, the first frame written after an off event is
\* read is all-zero on every LED.
C10_OffBlanks ==
    (evt.name = e_off /\ pc \in {"handler", "idle"}) =>
        /\ wrote <= 1
        /\ wrote = 1 => last = ZeroFrame
        /\ pc = "idle" => wrote = 1

\* off was read while the rainbow idle was running, and the frame written for
\* it is all-zero
C10_Witness ==
    /\ evt.name = e_off /\ pc = "idle" /\ wrote = 1 /\ last = ZeroFrame
    /\ current_idle.kind = "attract" /\ current_idle.mode = s_rainbow
    /\ current_idle.started

\* C11: a menu event takes its pulse colour and its idle-menu colour from the
\* configuration held, and the configuration held changes only when
\* reload-config is dispatched, to the content the file has then: after an
\* edit and a reload the new colours are used, without the reload the old.
C11_ReloadThenMenu ==
    /\ []((evt.name = e_menu /\ pc \in {"handler", "idle"}) =>
            /\ wrote >= 1 =>
                  last = send_colors(breath_frame((now + Period - 1) % Period,
                                                  ExpectSeed(evt.syskey),
                                                  1000, 300, 900))
            /\ pc = "idle" => IsIdleMenu(ExpectSeed(evt.syskey)))
    /\ [][/\ (pc = "loop" /\ pc' = "handler"
              /\ evt'.name = e_reload_config) => cfg' = file
          /\ cfg' # cfg => (pc = "loop" /\ evt'.name = e_reload_config)
         ]_vars

\* the idle generator still breathes the accent of the first file while a
\* menu pulse, after an edit and a reload, shows the accent of the second
C11_Witness ==
    /\ pc = "handler" /\ evt.name = e_menu /\ evt.syskey = s_snes
    /\ wrote >= 1
    /\ cfg = FileOther /\ file = FileOther
    /\ current_idle.kind = "menu" /\ current_idle.started
    /\ current_idle.base = <<20, 10, 200, BRIGHT_LIMIT>>
    /\ last = send_colors(breath_frame((now + Period - 1) % Period,
                                       <<90, 0, 0, 24>>, 1000, 300, 900))

\* C12: when the handler of a dispatched line returns the idle timer is
\* reset, so the idle frame of that loop iteration is pulled from the current
\* generator and sent at once; in an iteration that dispatched nothing the
\* idle frame is sent exactly when 1/30 s has passed since the last one.
C12_IdleTimer ==
    [][/\ (pc = "handler" /\ pc' = "idle") => since' >= IDLE_TICKS
       /\ (pc = "idle" /\ pc' = "idle") => since' = since
       /\ (pc = "idle" /\ pc' = "loop") =>
             IF since >= IDLE_TICKS
             THEN /\ current_idle' = idle_started(current_idle, now)
                  /\ last' = IdleFrameNow(current_idle)
                  /\ since' = 0
             ELSE /\ current_idle' = current_idle
                  /\ last' = last /\ since' = since
      ]_vars

\* attract-on, which sends no frame and takes no time, has returned and the
\* idle frame of the new generator is due
C12_Witness ==
    /\ pc = "idle" /\ evt.name = e_attract_on /\ since >= IDLE_TICKS
    /\ current_idle.kind = "attract" /\ ~current_idle.started

\* C14: on every path out of main after the serial sink was opened, the sink
\* is closed.
C14_AllClosed == pc \in {"done", "exited"} => ~serOpen

\* the configuration held resolves no start layout for the keys of the event
NoLayout ==
    /\ ~(cfg = FileFull /\ evt.syskey = s_snes)
    /\ ~(cfg = FileOther /\ evt.syskey = s_nes /\ evt.romkey = <<"x">>)

\* the colour of the wipe: the accent of the system, else the fixed default
WipeColour ==
    IF cfg = FileOther /\ evt.syskey = s_snes THEN <<90, 0, 0, 24>>
    ELSE <<0, 64, 0, BRIGHT_LIMIT>>

\* the bytes of the frame whose first k LEDs have colour c, the rest zero
WipeBytes(k, c) ==
    HEADER \o [i \in 1..(4 * NUM_LEDS) |->
                 IF (i - 1) \div 4 < k THEN c[((i - 1) % 4) + 1] ELSE 0]

\* C17: a game-start with no resolvable start layout writes NUM_LEDS wipe
\* frames, frame k lighting LEDs 0..k in the system's accent (a fixed default
\* when it has none) and leaving the rest zero, and then one dim hold frame.
C17_WipeThenHold ==
    (evt.name = e_game_start /\ pc \in {"handler", "idle"} /\ NoLayout) =>
        /\ wrote <= NUM_LEDS + 1
        /\ wrote \in 1..NUM_LEDS => last = WipeBytes(wrote, WipeColour)
        /\ wrote = NUM_LEDS + 1 => last = WipeBytes(NUM_LEDS, <<0, 0, 0, 18>>)
        /\ pc = "idle" => wrote = NUM_LEDS + 1

\* the third wipe frame of a game-start on a system with an accent and no
\* layout has been written
C17_Witness ==
    /\ evt.name = e_game_start /\ pc = "handler" /\ NoLayout
    /\ cfg = FileOther /\ evt.syskey = s_snes
    /\ wrote = 3 /\ last = WipeBytes(3, <<90, 0, 0, 24>>)

\* C19: every frame written to the sink, by a handler, an idle generator or
\* cleanup, has the brightness of every LED in [0, BRIGHT_LIMIT].
C19_FramesCapped ==
    last # <<>> =>
        \A i \in 1..NUM_LEDS : last[Len(HEADER) + 4 * i] \in 0..BRIGHT_LIMIT

\* a solid event that asks for brightness 255 has had its frame written at
\* BRIGHT_LIMIT
C19_Witness ==
    /\ evt.name = e_solid /\ wrote = 1
    /\ evt.e.o[k_br] = JInt(255)
    /\ last[Len(HEADER) + 4] = BRIGHT_LIMIT

\* C15: a non-empty line that is no well-formed event is read as an empty
\* event: no frame is written for it, the idle generator and the
\* configuration stay, and the loop goes on to the lines that follow.
C15_BadLineIgnored ==
    [][(/\ pc = "loop" /\ running /\ fifo # <<>> /\ pc' # "loop"
        /\ Head(fifo) \in BadLines) =>
            /\ pc' = "handler"
            /\ wrote' = 0 /\ last' = last
            /\ cfg' = cfg /\ current_idle' = current_idle
            /\ serOpen'
      ]_vars

\* C16: while a handler runs, the only frames written are the frames of that
\* handler, in order; no line is taken from the FIFO, the event and the idle
\* generator stay, and the handler is left only after its last frame. A line
\* that arrives meanwhile stays in the FIFO until the loop polls again.
C16_HandlerOwnsSink ==
    [][pc = "handler" =>
        /\ evt' = evt /\ rbuf' = rbuf
        /\ fifo # <<>> => fifo' = fifo
        /\ wrote' # wrote =>
            /\ pc' = "handler" /\ step < Len(handler_steps(evt).f)
            /\ wrote' = wrote + 1 /\ step' = step + 1
            /\ current_idle' = current_idle
            /\ LET st == handler_steps(evt).f[step + 1]
               IN  last' = send_colors(
                       IF st.kind = "pulse"
                       THEN breath_frame(now, st.cols[1], 1000, 300, 900)
                       ELSE st.cols)
        /\ wrote' = wrote => last' = last
        /\ pc' # "handler" =>
            /\ pc' = "idle" /\ step = Len(handler_steps(evt).f)
      ]_vars

\* a line arrived while game-end is between two of its frames
C16_Witness ==
    /\ pc = "handler" /\ evt.name = e_game_end
    /\ step >= 1 /\ step < Len(handler_steps(evt).f)
    /\ wrote = step
    /\ fifo # <<>>

DesignMenuColour == <<0, 32, 64, 28>>

\* C20: reload-config with a configuration file that is missing, unparseable
\* or no JSON object does not stop the daemon and leaves the empty
\* configuration, not the one held before; with the empty configuration
\* lookup_start_layout and system_accent return None for every system, and
\* a menu event pulses and then idles in the design-default menu colour.
C20_BrokenReload ==
    /\ [][(/\ pc = "loop" /\ running /\ fifo # <<>> /\ pc' # "loop"
           /\ decode(Head(fifo)) # None
           /\ event_name(decode(Head(fifo))) = Str(e_reload_config)
           /\ file \in BrokenFiles) =>
               /\ pc' = "handler" /\ evt'.name = e_reload_config
               /\ cfg' = EmptyObj
               /\ serOpen' /\ wrote' = 0 /\ last' = last
         ]_vars
    /\ [](cfg = EmptyObj =>
            /\ \A sk \in SysKeys :
                /\ system_accent(sk) = None
                /\ \A rk \in RomKeys : lookup_start_layout(sk, rk) = None
            /\ default_menu_color = Tup(DesignMenuColour))
    /\ []((cfg = EmptyObj /\ evt.name = e_menu /\ pc \in {"handler", "idle"}) =>
            /\ wrote >= 1 =>
                last = send_colors(breath_frame((now + Period - 1) % Period,
                                                DesignMenuColour,
                                                1000, 300, 900))
            /\ pc = "idle" => IsIdleMenu(DesignMenuColour))

\* menu for snes pulses the design default after a reload of a broken file,
\* while the idle generator still breathes the accent loaded at startup
C20_Witness ==
    /\ cfg = EmptyObj /\ file \in BrokenFiles
    /\ pc = "handler" /\ evt.name = e_menu /\ evt.syskey = s_snes
    /\ wrote >= 1
    /\ current_idle.kind = "menu" /\ current_idle.started
    /\ current_idle.base = <<20, 10, 200, BRIGHT_LIMIT>>
    /\ last = send_colors(breath_frame((now + Period - 1) % Period,
                                       DesignMenuColour, 1000, 300, 900))

\* C13: after a termination signal the daemon leaves the loop and stops; a
\* handler that is running sends all of its frames first; when the sink is
\* closed the last frame written is the all-off frame, and nothing is
\* written afterwards.
C13_SignalStops ==
    /\ (~running) ~> (pc = "done")
    /\ [](pc = "done" => (~serOpen /\ last = ZeroFrame))
    /\ [][/\ (pc = "handler" /\ pc' # "handler") =>
                (pc' = "idle" /\ step = Len(handler_steps(evt).f)
                              /\ wrote = step)
          /\ (serOpen /\ ~serOpen') =>
                (~running /\ pc = "loop" /\ last' = ZeroFrame)
          /\ ~serOpen => (last' = last /\ wrote' = wrote /\ ~serOpen')
         ]_vars

\* the signal came while settings-changed was running, and the handler has
\* sent all of its frames since
C13_Witness ==
    /\ pc = "handler" /\ ~running /\ serOpen
    /\ evt.name = e_settings_changed
    /\ step = Len(handler_steps(evt).f) /\ wrote = step
    /\ step > 1

\* C18: every line written to the FIFO is read and dispatched without a
\* further write, also a line written together with another one: as long as
\* the daemon runs, a line that waits in the pipe or in the reader's buffer
\* is taken from there.
C18_EveryLineRead ==
    (fifo # <<>> \/ rbuf # <<>>) ~>
        ((fifo = <<>> /\ rbuf = <<>>) \/ ~running \/ pc = "done")

====
